---- MODULE Spec2Model ----
(***************************************************************************)
(* GS_Scrape: the Google Scholar crawler (gsscrape/scraper.py) and the     *)
(* LaTeX report generator (gsscrape/reporter.py).                          *)
(*                                                                         *)
(* A Python str is modelled as a sequence of one-character strings, so     *)
(* that split, join, replace, upper, lower and title are computed the way  *)
(* Python computes them.                                                   *)
(***************************************************************************)
EXTENDS Integers, Sequences, FiniteSets, TLC

VARIABLES
    \* format_names called on its own (SpecNames)
    fpc,            \* "call" before the call, "done" after it, "idle" elsewhere
    names_in,       \* the name_string argument of format_names
    names_out       \* the value format_names returned

nameVars == <<fpc, names_in, names_out>>

VARIABLES
    \* getGSdata and the command line (Spec)
    pc,               \* the statement getGSdata is about to execute
    profile,          \* the profile's entries, newest first (kinds of EntryKinds)
    controlStays,     \* whether the page keeps "Mostrar mas" once all is loaded
    loaded,           \* rows of class gsc_a_tr in the list view's DOM
    pending,          \* rows requested from the server and not yet in the DOM
    views,            \* driver.window_handles, in creation order
    active,           \* driver.current_window_handle
    opened,           \* number of windows opened so far (handles are 1, 2, ...)
    original_window,
    settled,          \* per view: a time.sleep has run since its last change
    npapersOld,
    npapers,
    updateFlag,
    clicks,           \* clicks made on the "load more" control
    papers,           \* len(papers) of line 224: rows 1..papers of the profile
    idx,              \* position of `paper` in papers
    row,              \* title, gslink, reference, year of the current paper
    citations,
    detail,           \* paperlink, citeyears, journalTitle, authors_formatted
    infoList,
    failed,           \* statements at which a WebDriver call raised
    csv               \* the rows written by df_papers.to_csv, or "none"

envVars == <<profile, controlStays, loaded, pending>>
browserVars == <<views, active, opened, original_window, settled>>
loopVars == <<npapersOld, npapers, updateFlag, clicks>>
rowVars == <<papers, idx, row, citations, detail, infoList>>
outVars == <<failed, csv>>
crawlVars == <<pc, envVars, browserVars, loopVars, rowVars, outVars>>

VARIABLES
    \* generate_latex_report (SpecReport)
    rpc,              \* the statement generate_latex_report is about to execute
    df_papers,        \* the record set, in the order the crawler produced it
    rows,             \* the filtered frame the current loop iterates
    ri,               \* position of `row` in rows
    peer_reviewed_count,
    first_author_count,
    last_author_count,
    journal_counts,
    total_citations,
    citation_counts,
    latex_snippet,    \* the document's parts: list markers and \item entries
    sorted_citations,
    h_index,
    hi,               \* the i of "for i, citation in enumerate(sorted_citations)"
    statistics_text,
    report_file       \* what was written to output_file, or "none"

reportVars == <<rpc, df_papers, rows, ri, peer_reviewed_count, first_author_count,
                last_author_count, journal_counts, total_citations, citation_counts,
                latex_snippet, sorted_citations, h_index, hi, statistics_text,
                report_file>>

\* what getGSdata leaves alone, and what generate_latex_report leaves alone
offCrawl == <<nameVars, reportVars>>
offReport == <<nameVars, crawlVars>>

(***************************************************************************)
(* Bounds of the model.                                                    *)
(***************************************************************************)
\* longest name_string handed to format_names in SpecNames
MaxLen == 6
\* most entries a scraped profile holds
MaxEntries == 2
\* most rows of a record set given to generate_latex_report
MaxRows == 3

(***************************************************************************)
(* Python str primitives.                                                  *)
(***************************************************************************)
LowerLetters == <<"a", "b", "c", "i", "j", "l", "m", "p", "r", "s", "v", "x">>
UpperLetters == <<"A", "B", "C", "I", "J", "L", "M", "P", "R", "S", "V", "X">>

IsLower(c) == \E k \in 1..Len(LowerLetters) : LowerLetters[k] = c
IsUpper(c) == \E k \in 1..Len(UpperLetters) : UpperLetters[k] = c
IsLetter(c) == IsLower(c) \/ IsUpper(c)

\* str.upper() on one character
UpperChar(c) ==
    IF IsLower(c)
    THEN UpperLetters[CHOOSE k \in 1..Len(LowerLetters) : LowerLetters[k] = c]
    ELSE c

\* str.lower() on one character
LowerChar(c) ==
    IF IsUpper(c)
    THEN LowerLetters[CHOOSE k \in 1..Len(UpperLetters) : UpperLetters[k] = c]
    ELSE c

\* str.upper()
Upper(s) == [k \in 1..Len(s) |-> UpperChar(s[k])]

\* str.lower()
Lower(s) == [k \in 1..Len(s) |-> LowerChar(s[k])]

\* str.title(): a letter is uppercased when it follows a non-letter (or starts
\* the string) and lowercased otherwise
Title(s) ==
    [k \in 1..Len(s) |->
        IF k = 1 \/ ~IsLetter(s[k - 1]) THEN UpperChar(s[k]) ELSE LowerChar(s[k])]

\* str.find(sub) + 1: the first position where sub occurs in s, 0 when none
Find(s, sub) ==
    LET hits == {k \in 1..(Len(s) - Len(sub) + 1) : SubSeq(s, k, k + Len(sub) - 1) = sub}
    IN  IF hits = {} THEN 0 ELSE CHOOSE k \in hits : \A h \in hits : k <= h

\* sub in s
Contains(s, sub) == Find(s, sub) # 0

\* s[from:] (1-based)
Drop(s, from) == SubSeq(s, from, Len(s))

\* str.split(sep) for a non-empty sep: left to right, non-overlapping
RECURSIVE Split(_, _)
Split(s, sep) ==
    LET k == Find(s, sep)
    IN  IF k = 0
        THEN <<s>>
        ELSE <<SubSeq(s, 1, k - 1)>> \o Split(Drop(s, k + Len(sep)), sep)

\* sep.join(parts)
RECURSIVE Join(_, _)
Join(parts, sep) ==
    IF Len(parts) = 0 THEN <<>>
    ELSE IF Len(parts) = 1 THEN parts[1]
    ELSE parts[1] \o sep \o Join(Tail(parts), sep)

\* sep.join(s) for a str s: sep between the characters of s
RECURSIVE JoinChars(_, _)
JoinChars(s, sep) ==
    IF Len(s) = 0 THEN <<>>
    ELSE IF Len(s) = 1 THEN s
    ELSE <<s[1]>> \o sep \o JoinChars(Tail(s), sep)

\* str.replace(old, new) for a non-empty old: every non-overlapping occurrence,
\* left to right
RECURSIVE Replace(_, _, _)
Replace(s, old, new) ==
    LET k == Find(s, old)
    IN  IF k = 0
        THEN s
        ELSE SubSeq(s, 1, k - 1) \o new \o Replace(Drop(s, k + Len(old)), old, new)

(***************************************************************************)
(* scraper.py: unify_pseudonyms and format_names.                          *)
(***************************************************************************)
\* for pseudonym in pseudonyms: input_string = input_string.replace(pseudonym, name)
RECURSIVE unify_pseudonyms(_, _, _)
unify_pseudonyms(input_string, pseudonyms, name) ==
    IF Len(pseudonyms) = 0
    THEN input_string
    ELSE unify_pseudonyms(Replace(input_string, pseudonyms[1], name),
                          Tail(pseudonyms), name)

\* the loop body with "more than three letters" as the full-name criterion
format_one_name_MoreThanThree(name) ==
    LET tokens   == Split(name, <<" ">>)
        surname  == Join(Tail(tokens), <<" ">>)
        first    == tokens[1]
        isname   == Len(first) > 3
        initials == IF isname THEN <<first[1]>> ELSE first
        dotted   == JoinChars(Upper(initials), <<".">>) \o <<".">>
    IN  Join(<<dotted, surname>>, <<" ">>)

\* the body of format_names' loop, for one name
format_one_name(name) ==
    LET tokens   == Split(name, <<" ">>)
        surname  == Join(Tail(tokens), <<" ">>)
        first    == tokens[1]
        isname   == Len(first) >= 3
        initials == IF isname THEN <<first[1]>> ELSE first
        dotted   == JoinChars(Upper(initials), <<".">>) \o <<".">>
    IN  Join(<<dotted, surname>>, <<" ">>)

format_names(name_string) ==
    LET names == Split(name_string, <<",", " ">>)
        formatted_names == [k \in 1..Len(names) |-> format_one_name(names[k])]
    IN  Join(formatted_names, <<",", " ">>)

(***************************************************************************)
(* scraper.py: getGSdata and the command line.                             *)
(***************************************************************************)
Digits == <<"0", "1", "2", "3", "4", "5", "6", "7", "8", "9">>
IsDigit(c) == \E k \in 1..10 : Digits[k] = c
DigitValue(c) == (CHOOSE k \in 1..10 : Digits[k] = c) - 1

\* whether int(text) returns (it raises ValueError otherwise)
IsIntText(text) == Len(text) > 0 /\ \A k \in 1..Len(text) : IsDigit(text[k])

\* int(text) for a string of decimal digits
RECURSIVE IntOf(_)
IntOf(text) ==
    IF Len(text) = 0 THEN 0
    ELSE 10 * IntOf(SubSeq(text, 1, Len(text) - 1)) + DigitValue(text[Len(text)])

S_arxiv == <<"a", "r", "x", "i", "v">>
S_arXiv == <<"a", "r", "X", "i", "v">>
S_arXivColon == <<"a", "r", "X", "i", "v", ":">>
S_arXivColonSpace == <<"a", "r", "X", "i", "v", ":", " ">>

\* The arguments of getGSdata: name "C. M" and pseudonyms ["C S M"].
ScholarName == <<"C", ".", " ", "M">>
Pseudonyms == << <<"C", " ", "S", " ", "M">> >>

\* What the page shows for an entry: the list row (title, href, reference line,
\* year text, citation-count text) and the detail page (outbound link, per-year
\* markers, venue, authors).
EntryKinds == <<
    \* a journal paper by "c s m, ab li" in "prl", cited twice
    [title |-> "t1", href |-> "g1", reference |-> <<"p", "r", "l", " ", "1">>,
     year |-> <<"2", "0">>, cites |-> <<"2">>,
     paperlink |-> "u1", citeyears |-> <<"y">>,
     venue |-> <<"p", "r", "l">>,
     authors |-> <<"c", " ", "s", " ", "m", ",", " ", "a", "b", " ", "l", "i">>],
    \* a preprint "p arXiv:1" whose row shows no citation count
    [title |-> "t2", href |-> "g2",
     reference |-> <<"p", " ", "a", "r", "X", "i", "v", ":", "1">>,
     year |-> <<"2", "1">>, cites |-> <<>>,
     paperlink |-> "u2", citeyears |-> <<>>,
     venue |-> <<"a", "r", "X", "i", "v", " ", "p">>,
     authors |-> <<"a", "b", " ", "l", "i">>],
    \* a venue naming ARXIV whose reference line holds no "arXiv:"
    [title |-> "t3", href |-> "g3", reference |-> <<"x", " ", "2">>,
     year |-> <<"1", "9">>, cites |-> <<"1">>,
     paperlink |-> "u3", citeyears |-> <<>>,
     venue |-> <<"A", "R", "X", "I", "V">>,
     authors |-> <<"j", " ", "l", "i">>],
    \* a preprint whose reference line reads "arXiv:1arXiv:2"
    [title |-> "t4", href |-> "g4",
     reference |-> <<"a", "r", "X", "i", "v", ":", "1",
                     "a", "r", "X", "i", "v", ":", "2">>,
     year |-> <<"2", "2">>, cites |-> <<"1", "0">>,
     paperlink |-> "u4", citeyears |-> <<"y", "y">>,
     venue |-> <<"a", "r", "x", "i", "v">>,
     authors |-> <<"a", "b", " ", "l", "i">>],
    \* a row without a year
    [title |-> "t5", href |-> "g5", reference |-> <<"p", "r", "l", " ", "2">>,
     year |-> <<>>, cites |-> <<"3">>,
     paperlink |-> "u5", citeyears |-> <<>>,
     venue |-> <<"P", "r", "l">>,
     authors |-> <<"c", " ", "s", " ", "m">>]
>>

Entry(k) == EntryKinds[profile[k]]

NoRow == [title |-> "", gslink |-> "", reference |-> <<>>, year |-> 0]
NoDetail == [paperlink |-> "", citeyears |-> <<>>, journalTitle |-> <<>>,
             authors_formatted |-> <<>>]

\* the handle of the window webdriver.Firefox opens (line 195)
ListView == 1

\* the "Mostrar mas" span is in the DOM
ControlPresent == controlStays \/ loaded + pending < Len(profile)

\* content requested from the server lands in the list view's DOM
Landed == loaded + pending

CrawlIdle ==
    /\ pc = "idle" /\ profile = <<>> /\ controlStays = FALSE
    /\ loaded = 0 /\ pending = 0
    /\ views = <<>> /\ active = 0 /\ opened = 0 /\ original_window = 0
    /\ settled = [list |-> TRUE, detail |-> TRUE]
    /\ npapersOld = 0 /\ npapers = 0 /\ updateFlag = 0 /\ clicks = 0
    /\ papers = 0 /\ idx = 0 /\ row = NoRow /\ citations = 0 /\ detail = NoDetail
    /\ infoList = <<>> /\ failed = {} /\ csv = "none"

InitCrawl ==
    /\ pc = "get"
    /\ profile \in UNION {[1..n -> 1..Len(EntryKinds)] : n \in 0..MaxEntries}
    /\ controlStays \in BOOLEAN
    /\ loaded = 0 /\ pending = 0
    /\ views = <<>> /\ active = 0 /\ opened = 0 /\ original_window = 0
    /\ settled = [list |-> TRUE, detail |-> TRUE]
    /\ npapersOld = 0 /\ npapers = 0 /\ updateFlag = 0 /\ clicks = 0
    /\ papers = 0 /\ idx = 0 /\ row = NoRow /\ citations = 0 /\ detail = NoDetail
    /\ infoList = <<>> /\ failed = {} /\ csv = "none"

\* lines 195-198: driver = webdriver.Firefox(...); driver.get(urlpage)
GetListPage ==
    /\ UNCHANGED offCrawl
    /\ pc = "get"
    /\ opened' = 1
    /\ views' = <<ListView>>
    /\ active' = ListView
    /\ \E first \in 0..Len(profile) :
          /\ (Len(profile) > 0 => first > 0)
          /\ pending' = first
    /\ settled' = [settled EXCEPT !.list = FALSE]
    /\ pc' = "sleep_get"
    /\ UNCHANGED <<profile, controlStays, loaded, original_window, loopVars,
                   rowVars, outVars>>

\* line 199: time.sleep(3)
SleepAfterGet ==
    /\ UNCHANGED offCrawl
    /\ pc = "sleep_get"
    /\ loaded' = Landed
    /\ pending' = 0
    /\ settled' = [settled EXCEPT !.list = TRUE]
    /\ pc' = "while"
    /\ UNCHANGED <<profile, controlStays, views, active, opened, original_window,
                   loopVars, rowVars, outVars>>

\* line 206: while(updateFlag==0)
WhileTest ==
    /\ UNCHANGED offCrawl
    /\ pc = "while"
    /\ pc' = IF updateFlag = 0 THEN "count_old" ELSE "sleep_loop"
    /\ UNCHANGED <<envVars, browserVars, loopVars, rowVars, outVars>>

\* lines 207-208: npapersOld = len(driver.find_elements(...))
CountOld ==
    /\ UNCHANGED offCrawl
    /\ pc = "count_old"
    /\ npapersOld' = loaded
    /\ pc' = "click"
    /\ UNCHANGED <<envVars, browserVars, npapers, updateFlag, clicks, rowVars, outVars>>

\* line 211: find_element(...).click() returns: the page requests more rows
ClickMore ==
    /\ UNCHANGED offCrawl
    /\ pc = "click"
    /\ ControlPresent
    /\ LET left == Len(profile) - Landed
       IN  IF left = 0
           THEN pending' = pending
           ELSE \E more \in 1..left : pending' = pending + more
    /\ clicks' = clicks + 1
    /\ settled' = [settled EXCEPT !.list = FALSE]
    /\ pc' = "count_new"
    /\ UNCHANGED <<profile, controlStays, loaded, views, active, opened,
                   original_window, npapersOld, npapers, updateFlag, rowVars, outVars>>

\* lines 211-213: find_element raises NoSuchElementException; except: break
ClickAbsent ==
    /\ UNCHANGED offCrawl
    /\ pc = "click"
    /\ ~ControlPresent
    /\ pc' = "sleep_loop"
    /\ UNCHANGED <<envVars, browserVars, loopVars, rowVars, outVars>>

\* lines 214-217: npapers = len(...); if npapers==npapersOld: updateFlag=1
CountNew ==
    /\ UNCHANGED offCrawl
    /\ pc = "count_new"
    /\ npapers' = loaded
    /\ updateFlag' = IF loaded = npapersOld THEN 1 ELSE updateFlag
    /\ pc' = "while"
    /\ UNCHANGED <<envVars, browserVars, npapersOld, clicks, rowVars, outVars>>

\* line 219: time.sleep(3)
SleepAfterLoop ==
    /\ UNCHANGED offCrawl
    /\ pc = "sleep_loop"
    /\ loaded' = Landed
    /\ pending' = 0
    /\ settled' = [settled EXCEPT !.list = TRUE]
    /\ pc' = "find_papers"
    /\ UNCHANGED <<profile, controlStays, views, active, opened, original_window,
                   loopVars, rowVars, outVars>>

\* lines 224-230: papers = driver.find_elements(...); infoList = []; for paper in papers
FindPapers ==
    /\ UNCHANGED offCrawl
    /\ pc = "find_papers"
    /\ papers' = loaded
    /\ infoList' = <<>>
    /\ idx' = 1
    /\ pc' = IF loaded >= 1 THEN "row" ELSE "quit"
    /\ UNCHANGED <<envVars, browserVars, loopVars, row, citations, detail, outVars>>

\* lines 232-237: title, gslink, reference, year = int(...) read from the row;
\* int raises ValueError on a year text that is no number
ReadRow ==
    /\ UNCHANGED offCrawl
    /\ pc = "row"
    /\ IF IsIntText(Entry(idx).year)
       THEN /\ row' = [title |-> Entry(idx).title, gslink |-> Entry(idx).href,
                       reference |-> Entry(idx).reference,
                       year |-> IntOf(Entry(idx).year)]
            /\ pc' = "cites"
       ELSE /\ row' = row
            /\ pc' = "aborted"
    /\ UNCHANGED <<envVars, browserVars, loopVars, papers, idx, citations, detail,
                   infoList, outVars>>

\* lines 240-243: try: citations = int(...text)  except: citations = 0
ReadCitations ==
    /\ UNCHANGED offCrawl
    /\ pc = "cites"
    /\ citations' = IF IsIntText(Entry(idx).cites) THEN IntOf(Entry(idx).cites) ELSE 0
    /\ pc' = "open"
    /\ UNCHANGED <<envVars, browserVars, loopVars, papers, idx, row, detail,
                   infoList, outVars>>

\* lines 246-249: original_window = driver.current_window_handle;
\* driver.execute_script("window.open('');")
OpenWindow ==
    /\ UNCHANGED offCrawl
    /\ pc = "open"
    /\ original_window' = active
    /\ opened' = opened + 1
    /\ views' = Append(views, opened + 1)
    /\ settled' = [settled EXCEPT !.detail = FALSE]
    /\ pc' = "sleep_open"
    /\ UNCHANGED <<envVars, active, loopVars, rowVars, outVars>>

\* line 250: time.sleep(1)
SleepAfterOpen ==
    /\ UNCHANGED offCrawl
    /\ pc = "sleep_open"
    /\ loaded' = Landed
    /\ pending' = 0
    /\ settled' = [list |-> TRUE, detail |-> TRUE]
    /\ pc' = "switch"
    /\ UNCHANGED <<profile, controlStays, views, active, opened, original_window,
                   loopVars, rowVars, outVars>>

\* lines 251-252: new_window = [w for w in handles if w != original_window][0];
\* driver.switch_to.window(new_window)
SwitchToNew ==
    /\ UNCHANGED offCrawl
    /\ pc = "switch"
    /\ LET others == SelectSeq(views, LAMBDA w : w # original_window)
       IN  IF Len(others) = 0
           THEN active' = active /\ pc' = "aborted"
           ELSE active' = others[1] /\ pc' = "get_detail"
    /\ UNCHANGED <<envVars, views, opened, original_window, settled, loopVars,
                   rowVars, outVars>>

\* line 255: driver.get(gslink)
GetDetail ==
    /\ UNCHANGED offCrawl
    /\ pc = "get_detail"
    /\ settled' = [settled EXCEPT !.detail = FALSE]
    /\ pc' = "read_detail"
    /\ UNCHANGED <<envVars, views, active, opened, original_window, loopVars,
                   rowVars, outVars>>

\* lines 262-264: unify_pseudonyms(authors, pseudonyms, name) is called and its
\* return value dropped; authors_formatted = format_names(authors)
FormatAuthors(authors) == format_names(authors)

\* lines 256-264: paperlink, citeyears, journalTitle = ....text.title(),
\* authors = ....text.title(), authors_formatted
ReadDetail ==
    /\ UNCHANGED offCrawl
    /\ pc = "read_detail"
    /\ detail' = [paperlink |-> Entry(idx).paperlink,
                  citeyears |-> Entry(idx).citeyears,
                  journalTitle |-> Title(Entry(idx).venue),
                  authors_formatted |-> FormatAuthors(Title(Entry(idx).authors))]
    /\ pc' = "close"
    /\ UNCHANGED <<envVars, browserVars, loopVars, papers, idx, row, citations,
                   infoList, outVars>>

\* driver.close() left out: the detail view stays open
CloseWindow_Leaks ==
    /\ UNCHANGED offCrawl
    /\ pc = "close"
    /\ pc' = "switch_back"
    /\ UNCHANGED <<envVars, browserVars, loopVars, rowVars, outVars>>

\* line 267: driver.close()
CloseWindow ==
    /\ UNCHANGED offCrawl
    /\ pc = "close"
    /\ views' = SelectSeq(views, LAMBDA w : w # active)
    /\ pc' = "switch_back"
    /\ UNCHANGED <<envVars, active, opened, original_window, settled, loopVars,
                   rowVars, outVars>>

\* line 268: driver.switch_to.window(original_window)
SwitchBack ==
    /\ UNCHANGED offCrawl
    /\ pc = "switch_back"
    /\ active' = original_window
    /\ pc' = "classify"
    /\ UNCHANGED <<envVars, views, opened, original_window, settled, loopVars,
                   rowVars, outVars>>

\* the test without .lower()
IsArxiv_CaseSensitive(journalTitle) == Contains(journalTitle, S_arxiv)

\* line 271: isarxiv = 'arxiv' in journalTitle.lower()
IsArxiv(journalTitle) == Contains(Lower(journalTitle), S_arxiv)

\* line 273: 'arXiv: ' + reference.split('arXiv:')[1]
ArxivReference(reference) == S_arXivColonSpace \o Split(reference, S_arXivColon)[2]

\* lines 271-278: classify, rewrite reference and journal of a preprint, append
\* paperInfo; reference.split('arXiv:')[1] raises IndexError when the reference
\* holds no "arXiv:"
Classify ==
    /\ UNCHANGED offCrawl
    /\ pc = "classify"
    /\ LET isarxiv == IsArxiv(detail.journalTitle)
       IN  IF isarxiv /\ Len(Split(row.reference, S_arXivColon)) < 2
           THEN /\ infoList' = infoList
                /\ idx' = idx
                /\ pc' = "aborted"
           ELSE /\ infoList' = Append(infoList,
                      [title |-> row.title,
                       authors |-> detail.authors_formatted,
                       reference |-> IF isarxiv THEN ArxivReference(row.reference)
                                     ELSE row.reference,
                       journal |-> IF isarxiv THEN S_arXiv ELSE detail.journalTitle,
                       year |-> row.year,
                       citations |-> citations,
                       url |-> detail.paperlink,
                       citationsyears |-> detail.citeyears,
                       isarxiv |-> isarxiv])
                /\ idx' = idx + 1
                /\ pc' = IF idx < papers THEN "row" ELSE "quit"
    /\ UNCHANGED <<envVars, browserVars, loopVars, papers, row, citations, detail,
                   outVars>>

\* lines 280-284: driver.quit(); df_papers = pd.DataFrame(infoList, ...); return
QuitAndReturn ==
    /\ UNCHANGED offCrawl
    /\ pc = "quit"
    /\ views' = <<>>
    /\ active' = 0
    /\ pc' = "to_csv"
    /\ UNCHANGED <<envVars, opened, original_window, settled, loopVars, rowVars,
                   outVars>>

\* lines 299-302: df_papers = getGSdata(...); df_papers.to_csv(args.output)
WriteCsv ==
    /\ UNCHANGED offCrawl
    /\ pc = "to_csv"
    /\ csv' = infoList
    /\ pc' = "done"
    /\ UNCHANGED <<envVars, browserVars, loopVars, rowVars, failed>>

\* the statements that call into the WebDriver
DriverCalls == {"get", "count_old", "click", "count_new", "find_papers", "row",
                "cites", "open", "switch", "get_detail", "read_detail", "close",
                "switch_back"}

\* A WebDriver call raises although the element it looks for is on the page
\* (the click is intercepted, the element went stale, the navigation failed).
\* Line 212 "except Exception: break" catches it at the click, line 242
\* "except:" catches it at the citation count, and nothing catches it elsewhere.
DriverCallRaises ==
    /\ UNCHANGED offCrawl
    /\ pc \in DriverCalls
    /\ failed' = failed \cup {pc}
    /\ pc' = CASE pc = "click" -> "sleep_loop"
               [] pc = "cites" -> "open"
               [] OTHER -> "aborted"
    /\ citations' = IF pc = "cites" THEN 0 ELSE citations
    /\ UNCHANGED <<envVars, browserVars, loopVars, papers, idx, row, detail,
                   infoList, csv>>

\* rows the page requested arrive from the server
ContentArrives ==
    /\ UNCHANGED offCrawl
    /\ pc \notin {"idle", "done", "aborted"}
    /\ pending > 0
    /\ loaded' = Landed
    /\ pending' = 0
    /\ UNCHANGED <<pc, profile, controlStays, browserVars, loopVars, rowVars, outVars>>

Next ==
    \/ GetListPage \/ SleepAfterGet \/ WhileTest \/ CountOld \/ ClickMore
    \/ ClickAbsent \/ CountNew \/ SleepAfterLoop \/ FindPapers \/ ReadRow
    \/ ReadCitations \/ OpenWindow \/ SleepAfterOpen \/ SwitchToNew \/ GetDetail
    \/ ReadDetail \/ CloseWindow \/ SwitchBack \/ Classify \/ QuitAndReturn
    \/ WriteCsv \/ DriverCallRaises \/ ContentArrives

(***************************************************************************)
(* reporter.py: generate_latex_report.                                     *)
(***************************************************************************)
\* str.strip() of blanks
RECURSIVE Strip(_)
Strip(s) ==
    IF Len(s) = 0 THEN s
    ELSE IF s[1] = " " THEN Strip(Tail(s))
    ELSE IF s[Len(s)] = " " THEN Strip(SubSeq(s, 1, Len(s) - 1))
    ELSE s

\* sorted(counts, reverse=True)
RECURSIVE InsertDesc(_, _)
InsertDesc(x, sortedSeq) ==
    IF Len(sortedSeq) = 0 THEN <<x>>
    ELSE IF x >= sortedSeq[1] THEN <<x>> \o sortedSeq
    ELSE <<sortedSeq[1]>> \o InsertDesc(x, Tail(sortedSeq))

RECURSIVE SortedReverse(_)
SortedReverse(counts) ==
    IF Len(counts) = 0 THEN <<>>
    ELSE InsertDesc(counts[1], SortedReverse(Tail(counts)))

\* The arguments of generate_latex_report: name "C. M" and two tracked journals.
ReportName == <<"C", ".", " ", "M">>
JournalsToCount == << <<"P", "r", "l">>, <<"P", "R", "X">> >>

S_CM == <<"C", ".", " ", "M">>
S_ALi == <<"A", ".", " ", "L", "i">>

\* The rows a record set is drawn from.
RowKinds == <<
    [title |-> "t1", authors |-> S_CM \o <<",", " ">> \o S_ALi,
     reference |-> <<"p", "r", "l", " ", "1">>, journal |-> <<"P", "r", "l">>,
     year |-> 20, citations |-> 3, url |-> "u1", isarxiv |-> FALSE],
    [title |-> "t2", authors |-> S_ALi \o <<",", " ">> \o S_CM,
     reference |-> <<"p", "r", "x", " ", "2">>, journal |-> <<"P", "r", "x">>,
     year |-> 21, citations |-> 1, url |-> "u2", isarxiv |-> FALSE],
    [title |-> "t3", authors |-> S_ALi,
     reference |-> <<"p", "r", "a", " ", "3">>, journal |-> <<"P", "r", "a">>,
     year |-> 19, citations |-> 2, url |-> "u3", isarxiv |-> FALSE],
    [title |-> "t4", authors |-> S_CM,
     reference |-> <<"p", "r", "l", " ", "4">>, journal |-> <<"p", "r", "l">>,
     year |-> 22, citations |-> 0, url |-> "u4", isarxiv |-> FALSE],
    [title |-> "t5", authors |-> S_CM \o <<",", " ">> \o S_ALi,
     reference |-> S_arXivColonSpace \o <<"1">>, journal |-> S_arXiv,
     year |-> 22, citations |-> 5, url |-> "u5", isarxiv |-> TRUE],
    [title |-> "t6", authors |-> S_ALi,
     reference |-> S_arXivColonSpace \o <<"2">>, journal |-> S_arXiv,
     year |-> 21, citations |-> 1, url |-> "u6", isarxiv |-> TRUE],
    [title |-> "t7", authors |-> S_ALi \o <<",", " ">> \o S_CM \o <<",", " ">> \o S_ALi,
     reference |-> <<"p", "r", "x", " ", "7">>, journal |-> <<"P", "R", "X">>,
     year |-> 23, citations |-> 2, url |-> "u7", isarxiv |-> FALSE]
>>

NoCounts == [count |-> 0, first_author |-> 0, last_author |-> 0]

\* df_papers[df_papers['isarxiv'] == flag], in the frame's row order
RowsWhere(frame, flag) == SelectSeq(frame, LAMBDA r : r.isarxiv = flag)

\* lines 117 and 181: authors.replace(name, f"\\textbf{{{name}}}")
Bolded(authors, name) == Replace(authors, name, <<"\\textbf{">> \o name \o <<"}">>)

\* lines 75, 127, 169-170, 191: a line of markup that is no \item
Markup(text) == [part |-> text]

\* lines 120-124 and 184-188: one \item of a list
Item(title, authors_bolded, url, reference, year) ==
    [part |-> "\\item", title |-> title, authors |-> authors_bolded, url |-> url,
     reference |-> reference, year |-> year]

ReportIdle ==
    /\ rpc = "idle" /\ df_papers = <<>> /\ rows = <<>> /\ ri = 0
    /\ peer_reviewed_count = 0 /\ first_author_count = 0 /\ last_author_count = 0
    /\ journal_counts = <<>> /\ total_citations = 0 /\ citation_counts = <<>>
    /\ latex_snippet = <<>> /\ sorted_citations = <<>> /\ h_index = 0 /\ hi = 0
    /\ statistics_text = <<>> /\ report_file = "none"

InitReport ==
    /\ rpc = "begin"
    /\ df_papers \in UNION {[1..n -> {RowKinds[k] : k \in 1..Len(RowKinds)}] : n \in 0..MaxRows}
    /\ rows = <<>> /\ ri = 0
    /\ peer_reviewed_count = 0 /\ first_author_count = 0 /\ last_author_count = 0
    /\ journal_counts = <<>> /\ total_citations = 0 /\ citation_counts = <<>>
    /\ latex_snippet = <<>> /\ sorted_citations = <<>> /\ h_index = 0 /\ hi = 0
    /\ statistics_text = <<>> /\ report_file = "none"

\* the first loop without its filter
PeerRows_Unfiltered(frame) == frame

\* the rows of the first loop (line 82)
PeerRows(frame) == RowsWhere(frame, FALSE)

\* the second loop over the preprints last to first
PreprintRows_Reversed(frame) ==
    LET pre == RowsWhere(frame, TRUE)
    IN  [k \in 1..Len(pre) |-> pre[Len(pre) + 1 - k]]

\* the rows of the second loop (line 173)
PreprintRows(frame) == RowsWhere(frame, TRUE)

\* lines 69-82: the counters, the first \begin{enumerate}, the filtered frame
BeginReport ==
    /\ UNCHANGED offReport
    /\ rpc = "begin"
    /\ peer_reviewed_count' = 0
    /\ first_author_count' = 0
    /\ last_author_count' = 0
    /\ journal_counts' = [j \in {Lower(JournalsToCount[k]) : k \in 1..Len(JournalsToCount)}
                            |-> NoCounts]
    /\ latex_snippet' = <<Markup("\\begin{enumerate}")>>
    /\ total_citations' = 0
    /\ citation_counts' = <<>>
    /\ rows' = PeerRows(df_papers)
    /\ ri' = 1
    /\ rpc' = "peer_loop"
    /\ UNCHANGED <<df_papers, sorted_citations, h_index, hi, statistics_text, report_file>>

\* the tallies with the journal title looked up as written
CountJournal_CaseSensitive(counts, journal_title, is_first_author, is_last_author) ==
    IF journal_title \in DOMAIN counts
    THEN [counts EXCEPT
            ![journal_title].first_author = @ + (IF is_first_author THEN 1 ELSE 0),
            ![journal_title].last_author = @ + (IF is_last_author THEN 1 ELSE 0),
            ![journal_title].count = @ + 1]
    ELSE counts

\* lines 102-114: the tracked-journal tallies of one row
CountJournal(counts, journal_title, is_first_author, is_last_author) ==
    LET journal_lower == Lower(journal_title)
    IN  IF journal_lower \in DOMAIN counts
        THEN [counts EXCEPT
                ![journal_lower].first_author = @ + (IF is_first_author THEN 1 ELSE 0),
                ![journal_lower].last_author = @ + (IF is_last_author THEN 1 ELSE 0),
                ![journal_lower].count = @ + 1]
        ELSE counts

\* the comparison made strict
ReachesRank_Strict(citation, i) == citation > i + 1

\* line 133: if citation >= i + 1
ReachesRank(citation, i) == citation >= i + 1

\* lines 83-124: the body of the first loop, for one peer-reviewed row
PeerRow ==
    /\ UNCHANGED offReport
    /\ rpc = "peer_loop"
    /\ ri <= Len(rows)
    /\ LET r == rows[ri]
           authors_list == [k \in 1..Len(Split(r.authors, <<",">>)) |->
                               Strip(Split(r.authors, <<",">>)[k])]
           is_first_author == authors_list[1] = ReportName
           is_last_author == authors_list[Len(authors_list)] = ReportName
       IN  /\ peer_reviewed_count' = peer_reviewed_count + 1
           /\ citation_counts' = Append(citation_counts, r.citations)
           /\ total_citations' = total_citations + r.citations
           /\ first_author_count' = first_author_count + (IF is_first_author THEN 1 ELSE 0)
           /\ last_author_count' = last_author_count + (IF is_last_author THEN 1 ELSE 0)
           /\ journal_counts' = CountJournal(journal_counts, r.journal,
                                             is_first_author, is_last_author)
           /\ latex_snippet' = Append(latex_snippet,
                  Item(r.title, Bolded(r.authors, ReportName), r.url,
                       Title(r.reference), r.year))
    /\ ri' = ri + 1
    /\ UNCHANGED <<rpc, df_papers, rows, sorted_citations, h_index, hi,
                   statistics_text, report_file>>

\* lines 127-131: \end{enumerate}; sorted_citations; h_index = 0
EndPeerList ==
    /\ UNCHANGED offReport
    /\ rpc = "peer_loop"
    /\ ri > Len(rows)
    /\ latex_snippet' = Append(latex_snippet, Markup("\\end{enumerate}"))
    /\ sorted_citations' = SortedReverse(citation_counts)
    /\ h_index' = 0
    /\ hi' = 0
    /\ rpc' = "h_loop"
    /\ UNCHANGED <<df_papers, rows, ri, peer_reviewed_count, first_author_count,
                   last_author_count, journal_counts, total_citations,
                   citation_counts, statistics_text, report_file>>

\* lines 132-136: one pass of "for i, citation in enumerate(sorted_citations)"
HIndexStep ==
    /\ UNCHANGED offReport
    /\ rpc = "h_loop"
    /\ IF hi < Len(sorted_citations)
       THEN IF ReachesRank(sorted_citations[hi + 1], hi)
            THEN h_index' = hi + 1 /\ hi' = hi + 1 /\ rpc' = rpc
            ELSE h_index' = h_index /\ hi' = hi /\ rpc' = "stats"
       ELSE h_index' = h_index /\ hi' = hi /\ rpc' = "stats"
    /\ UNCHANGED <<df_papers, rows, ri, peer_reviewed_count, first_author_count,
                   last_author_count, journal_counts, total_citations,
                   citation_counts, latex_snippet, sorted_citations,
                   statistics_text, report_file>>

\* f"{n}" for a count n: its decimal digits
RECURSIVE FormatInt(_)
FormatInt(n) ==
    IF n < 10 THEN <<Digits[n + 1]>>
    ELSE FormatInt(n \div 10) \o <<Digits[(n % 10) + 1]>>

S_FirstAuthor == <<" ", "f", "i", "r", "s", "t", " ", "a", "u", "t", "h", "o", "r">>
S_LastAuthor == <<" ", "l", "a", "s", "t", " ", "a", "u", "t", "h", "o", "r">>
S_TheseInclude == <<"T", "h", "e", "s", "e", " ", "i", "n", "c", "l", "u", "d", "e", " ">>

\* lines 152-158: journal_str of one tracked journal with a nonzero count
JournalPhrase(journal, c) ==
    FormatInt(c.count) \o <<" ">> \o journal \o
    (IF c.first_author > 0 /\ c.last_author > 0
     THEN <<" ", "(">> \o FormatInt(c.first_author) \o S_FirstAuthor \o <<",", " ">>
          \o FormatInt(c.last_author) \o S_LastAuthor \o <<")">>
     ELSE IF c.first_author > 0
     THEN <<" ", "(">> \o FormatInt(c.first_author) \o S_FirstAuthor \o <<")">>
     ELSE IF c.last_author > 0
     THEN <<" ", "(">> \o FormatInt(c.last_author) \o S_LastAuthor \o <<")">>
     ELSE <<>>)

\* lines 145-159: journal_report, in the order of journals_to_count
RECURSIVE JournalReport(_, _)
JournalReport(journals, counts) ==
    IF Len(journals) = 0 THEN <<>>
    ELSE LET c == counts[Lower(journals[1])]
         IN  (IF c.count > 0 THEN <<JournalPhrase(journals[1], c)>> ELSE <<>>)
             \o JournalReport(Tail(journals), counts)

\* lines 162-163: what journal_report adds to statistics_text
TheseInclude(journal_report) ==
    IF Len(journal_report) = 0 THEN <<>>
    ELSE S_TheseInclude \o Join(journal_report, <<",", " ">>) \o <<".", "\n">>

\* lines 139-170: statistics_text, the Preprints heading, the second
\* \begin{enumerate}, the filtered frame of the second loop
BuildStatistics ==
    /\ UNCHANGED offReport
    /\ rpc = "stats"
    /\ statistics_text' =
          [peer_reviewed |-> peer_reviewed_count,
           first_author |-> first_author_count,
           last_author |-> last_author_count,
           these_include |->
               TheseInclude(JournalReport(JournalsToCount, journal_counts)),
           h_index |-> h_index,
           citations |-> total_citations]
    /\ latex_snippet' = latex_snippet \o <<Markup("\\textsc{Preprints}"),
                                            Markup("\\begin{enumerate}")>>
    /\ rows' = PreprintRows(df_papers)
    /\ ri' = 1
    /\ rpc' = "pre_loop"
    /\ UNCHANGED <<df_papers, peer_reviewed_count, first_author_count,
                   last_author_count, journal_counts, total_citations,
                   citation_counts, sorted_citations, h_index, hi, report_file>>

\* lines 174-188: the body of the second loop, for one preprint
PreprintRow ==
    /\ UNCHANGED offReport
    /\ rpc = "pre_loop"
    /\ ri <= Len(rows)
    /\ LET r == rows[ri]
       IN  latex_snippet' = Append(latex_snippet,
              Item(r.title, Bolded(r.authors, ReportName), r.url, r.reference, r.year))
    /\ ri' = ri + 1
    /\ UNCHANGED <<rpc, df_papers, rows, peer_reviewed_count, first_author_count,
                   last_author_count, journal_counts, total_citations,
                   citation_counts, sorted_citations, h_index, hi,
                   statistics_text, report_file>>

\* lines 191-195: \end{enumerate}; write statistics_text and latex_snippet
WriteReport ==
    /\ UNCHANGED offReport
    /\ rpc = "pre_loop"
    /\ ri > Len(rows)
    /\ latex_snippet' = Append(latex_snippet, Markup("\\end{enumerate}"))
    /\ report_file' = [statistics |-> statistics_text, latex |-> latex_snippet']
    /\ rpc' = "done"
    /\ UNCHANGED <<df_papers, rows, ri, peer_reviewed_count, first_author_count,
                   last_author_count, journal_counts, total_citations,
                   citation_counts, sorted_citations, h_index, hi, statistics_text>>

(***************************************************************************)
(* SpecNames: format_names applied to every string of at most MaxLen       *)
(* characters over NameAlphabet.                                           *)
(***************************************************************************)
NameAlphabet == {"a", "b", " ", ","}

StringsUpTo(alphabet, n) == UNION {[1..k -> alphabet] : k \in 0..n}

NamesIdle == fpc = "idle" /\ names_in = <<>> /\ names_out = <<>>

InitNames ==
    /\ CrawlIdle
    /\ ReportIdle
    /\ fpc = "call"
    /\ names_in \in StringsUpTo(NameAlphabet, MaxLen)
    /\ names_out = <<>>

CallFormatNames ==
    /\ fpc = "call"
    /\ names_out' = format_names(names_in)
    /\ fpc' = "done"
    /\ UNCHANGED <<names_in, crawlVars, reportVars>>

NextNames == CallFormatNames

vars == <<nameVars, crawlVars, reportVars>>

SpecNames == InitNames /\ [][NextNames]_vars

(***************************************************************************)
(* Spec: one run of the command line, over every profile of at most        *)
(* MaxEntries entries.                                                     *)
(***************************************************************************)
Init == InitCrawl /\ NamesIdle /\ ReportIdle

Spec == Init /\ [][Next]_vars

(***************************************************************************)
(* SpecReport: generate_latex_report on every record set of at most        *)
(* MaxRows rows drawn from RowKinds.                                       *)
(***************************************************************************)
InitReportCall == InitReport /\ NamesIdle /\ CrawlIdle

NextReport ==
    \/ BeginReport \/ PeerRow \/ EndPeerList \/ HIndexStep \/ BuildStatistics
    \/ PreprintRow \/ WriteReport

SpecReport == InitReportCall /\ [][NextReport]_vars

(***************************************************************************)
(* Claims about getGSdata and the command line (Spec).                     *)
(***************************************************************************)
DetailViews == SelectSeq(views, LAMBDA w : w # ListView)

\* C1: at most two browser views exist at any time, the list view and at most
\* one detail view, and whenever a detail view is about to be opened the
\* previous one has been closed and the list view is the active context.
C1_AtMostTwoViews ==
    /\ Len(views) <= 2
    /\ Len(DetailViews) <= 1
    /\ pc = "open" => views = <<ListView>> /\ active = ListView

\* C1 witness: the first record is appended and the second entry's detail view
\* is open and active beside the list view.
C1_Witness ==
    /\ Len(infoList) = 1
    /\ pc = "read_detail"
    /\ Len(views) = 2
    /\ active = views[2]

LoopPCs == {"while", "count_old", "click", "count_new"}

\* the pagination loop is left by break or by its test, not by an exception
LoopEnds == pc \in LoopPCs /\ pc' = "sleep_loop"

\* what a step of the pagination loop may do
LoopStep ==
    /\ LoopEnds => (~ControlPresent \/ (pc = "while" /\ npapers = npapersOld))
    /\ (pc = "click" /\ ~ControlPresent /\ pc' \notin {pc, "aborted"}) => LoopEnds
    /\ (pc = "while" /\ updateFlag = 1 /\ pc' # pc) => LoopEnds
    /\ (pc = "count_new" /\ pc' = "while") => (updateFlag' = 1 <=> npapers' = npapersOld)
    /\ (pc = "while" /\ updateFlag = 0) => pc' \in {"while", "count_old"}

\* C2: the pagination loop goes on clicking until, and ends exactly when, the
\* "load more" control is absent or the count read after a click equals the
\* count read before it; nothing else caps the clicks, and over a profile of
\* finitely many entries the loop ends (every click but the last adds an entry).
C2_AsStated == [][LoopStep]_vars /\ [](clicks <= Len(profile) + 1)

\* the record the claims expect for the k-th entry of the profile
SourceOf(k) == Entry(k)

\* C3: every record's authors field is format_names applied to the result of
\* unify_pseudonyms(raw author string, pseudonyms, name).
C3_AsStated ==
    \A k \in 1..Len(infoList) :
        infoList[k].authors =
            format_names(unify_pseudonyms(Title(SourceOf(k).authors),
                                          Pseudonyms, ScholarName))

\* C4: a WebDriver call that raises, other than for a missing citation count or
\* a missing "load more" control, aborts the run: getGSdata returns no record
\* set and no output file is written.
C4_AsStated == failed # {} => pc \notin {"to_csv", "done"} /\ csv = "none"

\* C5: every read of dynamic content (the loaded-entry count, the list rows,
\* the detail-page fields) comes after a settle-delay that followed the last
\* change of the page it reads, so nothing requested is still on its way.
C5_AsStated ==
    /\ pc \in {"count_old", "count_new", "find_papers"} => settled.list /\ pending = 0
    /\ pc = "read_detail" => settled.detail

\* the text after the first occurrence of sub in s
AfterFirst(s, sub) == Drop(s, Find(s, sub) + Len(sub))

\* the text between the first occurrence of sub in s and the next one
UpToNext(s, sub) ==
    LET rest == AfterFirst(s, sub)
        k == Find(rest, sub)
    IN  IF k = 0 THEN rest ELSE SubSeq(rest, 1, k - 1)

Classified(arxivId(_, _)) ==
    \A k \in 1..Len(infoList) :
        LET r == infoList[k]
            e == SourceOf(k)
        IN  /\ r.isarxiv <=> Contains(Lower(e.venue), S_arxiv)
            /\ r.isarxiv =>
                  /\ r.reference = S_arXivColonSpace \o arxivId(e.reference, S_arXivColon)
                  /\ r.journal = S_arXiv
            /\ ~r.isarxiv =>
                  /\ r.reference = e.reference
                  /\ r.journal = Title(e.venue)

\* C8 as stated: isarxiv is true exactly when the venue text contains "arxiv"
\* in any case; then the reference is "arXiv: " followed by the substring after
\* "arXiv:" in the original reference and the journal is "arXiv"; otherwise
\* reference and journal are as scraped.
C8_AsStated == Classified(AfterFirst)

\* C8 amended: the reference of a preprint is "arXiv: " followed by the text
\* between the first "arXiv:" of the original reference and the next "arXiv:"
\* (the rest of the reference when there is no other).
C8_Classification == Classified(UpToNext)

\* C8 witness: a preprint record, rewritten to "arXiv: 1" in "arXiv", followed
\* by a journal record left as scraped.
C8_Witness ==
    /\ Len(infoList) = 2
    /\ infoList[1].isarxiv
    /\ infoList[1].reference = S_arXivColonSpace \o <<"1">>
    /\ infoList[1].journal = S_arXiv
    /\ ~infoList[2].isarxiv
    /\ infoList[2].journal = <<"P", "r", "l">>

(***************************************************************************)
(* Claims about generate_latex_report (SpecReport).                        *)
(***************************************************************************)
PeerIndices == {k \in 1..Len(df_papers) : ~df_papers[k].isarxiv}
PreprintIndices == {k \in 1..Len(df_papers) : df_papers[k].isarxiv}

RECURSIVE CitationSum(_)
CitationSum(indices) ==
    IF indices = {} THEN 0
    ELSE LET k == CHOOSE x \in indices : TRUE
         IN  df_papers[k].citations + CitationSum(indices \ {k})

\* the first entry of a comma-separated author list is the scholar
FirstIs(authors) ==
    LET k == Find(authors, <<",">>)
    IN  Strip(IF k = 0 THEN authors ELSE SubSeq(authors, 1, k - 1)) = ReportName

\* C6: the statistics are computed over the non-preprint records only:
\* peer_reviewed_count is their number, first_author_count and
\* last_author_count are at most that, total_citations is the sum of their
\* citations, and these are the values written to the report.
C6_Statistics ==
    /\ first_author_count <= peer_reviewed_count
    /\ last_author_count <= peer_reviewed_count
    /\ rpc \in {"h_loop", "stats", "pre_loop", "done"} =>
          /\ peer_reviewed_count = Cardinality(PeerIndices)
          /\ total_citations = CitationSum(PeerIndices)
          /\ first_author_count =
                Cardinality({k \in PeerIndices : FirstIs(df_papers[k].authors)})
    /\ rpc = "done" =>
          /\ report_file.statistics.peer_reviewed = Cardinality(PeerIndices)
          /\ report_file.statistics.citations = CitationSum(PeerIndices)
          /\ report_file.statistics.first_author <= Cardinality(PeerIndices)
          /\ report_file.statistics.last_author <= Cardinality(PeerIndices)

\* C6 witness: a report over two peer-reviewed records and a preprint cited
\* five times, the scholar first author of one record.
C6_Witness ==
    /\ rpc = "done"
    /\ Cardinality(PeerIndices) = 2
    /\ \E k \in PreprintIndices : df_papers[k].citations = 5
    /\ first_author_count = 1
    /\ total_citations = 4

\* the i-th largest citation count among the non-preprint records
NthLargest(i) ==
    CHOOSE v \in {df_papers[k].citations : k \in PeerIndices} :
        /\ Cardinality({k \in PeerIndices : df_papers[k].citations > v}) < i
        /\ Cardinality({k \in PeerIndices : df_papers[k].citations >= v}) >= i

\* the largest rank i whose i-th largest count is at least i, 0 when none
LargestRank ==
    LET ranks == {i \in 1..Cardinality(PeerIndices) : NthLargest(i) >= i}
    IN  IF ranks = {} THEN 0 ELSE CHOOSE i \in ranks : \A j \in ranks : j <= i

\* C7: the h-index is the largest 1-indexed rank i such that the i-th largest
\* citation count of the non-preprint records is at least i, and 0 when there
\* is no such rank.
C7_HIndex == rpc \in {"stats", "pre_loop", "done"} => h_index = LargestRank

\* C7 witness: counts 3, 2, 1 gave h-index 2 (the third count, 1, is below 3).
C7_Witness ==
    /\ rpc = "done"
    /\ sorted_citations = <<3, 2, 1>>
    /\ report_file.statistics.h_index = 2

\* the parts of the document from the n-th \begin{enumerate} to its \end
RECURSIVE ListOf(_, _)
ListOf(parts, n) ==
    IF Len(parts) = 0 THEN <<>>
    ELSE IF parts[1].part = "\\begin{enumerate}"
         THEN IF n = 1
              THEN LET close == CHOOSE k \in 2..Len(parts) :
                                   /\ parts[k].part = "\\end{enumerate}"
                                   /\ \A j \in 2..(k - 1) : parts[j].part # "\\end{enumerate}"
                   IN  SubSeq(parts, 2, close - 1)
              ELSE ListOf(Tail(parts), n - 1)
         ELSE ListOf(Tail(parts), n)

\* the k-th smallest member of a set of row numbers
RECURSIVE KthOf(_, _)
KthOf(indices, k) ==
    LET least == CHOOSE x \in indices : \A y \in indices : x <= y
    IN  IF k = 1 THEN least ELSE KthOf(indices \ {least}, k - 1)

\* the items of a list are the records at the given rows, once each, in row order
ListsExactly(items, indices) ==
    /\ Len(items) = Cardinality(indices)
    /\ \A k \in 1..Len(items) :
          LET r == df_papers[KthOf(indices, k)]
          IN  /\ items[k].title = r.title
              /\ items[k].url = r.url
              /\ items[k].year = r.year

\* C9: the written document lists every non-preprint record exactly once in
\* the first numbered list and every preprint exactly once in the second, each
\* list in the relative order of the input record set.
C9_Lists ==
    rpc = "done" =>
        /\ ListsExactly(ListOf(report_file.latex, 1), PeerIndices)
        /\ ListsExactly(ListOf(report_file.latex, 2), PreprintIndices)

\* C9 witness: a report over preprint t6, journal paper t1, preprint t5, in
\* that order.
C9_Witness ==
    /\ rpc = "done"
    /\ Len(df_papers) = 3
    /\ df_papers[1].title = "t6" /\ df_papers[2].title = "t1" /\ df_papers[3].title = "t5"
    /\ Len(ListOf(report_file.latex, 2)) = 2

\* the non-preprint records whose journal is the venue, whatever the case
VenueRecords(venue) ==
    {k \in PeerIndices : Lower(df_papers[k].journal) = Lower(venue)}

\* the last entry of a comma-separated author list is the scholar
LastIs(authors) ==
    LET entries == Split(authors, <<",">>)
    IN  Strip(entries[Len(entries)]) = ReportName

VenueFirst(venue) == {k \in VenueRecords(venue) : FirstIs(df_papers[k].authors)}
VenueLast(venue) == {k \in VenueRecords(venue) : LastIs(df_papers[k].authors)}

\* the parenthetical of a phrase: the nonzero sub-counts, first author first
VenueSuffix(first, last) ==
    LET shown == (IF first > 0 THEN <<FormatInt(first) \o S_FirstAuthor>> ELSE <<>>)
                 \o (IF last > 0 THEN <<FormatInt(last) \o S_LastAuthor>> ELSE <<>>)
    IN  IF Len(shown) = 0 THEN <<>>
        ELSE <<" ", "(">> \o Join(shown, <<",", " ">>) \o <<")">>

\* "<count> <VenueName>" and its parenthetical
VenuePhrase(venue) ==
    FormatInt(Cardinality(VenueRecords(venue))) \o <<" ">> \o venue
    \o VenueSuffix(Cardinality(VenueFirst(venue)), Cardinality(VenueLast(venue)))

\* the phrases of the tracked venues with a nonzero count, in tracked order
VenuePhrases ==
    LET shown == SelectSeq([k \in 1..Len(JournalsToCount) |-> k],
                           LAMBDA k : VenueRecords(JournalsToCount[k]) # {})
    IN  [n \in 1..Len(shown) |-> VenuePhrase(JournalsToCount[shown[n]])]

\* C11: for each tracked venue the report counts the non-preprint records
\* whose journal matches the venue case-insensitively, with first-author and
\* last-author sub-counts over those same records (each at most the venue
\* count); the statistics text holds a phrase "<count> <VenueName>" for
\* exactly the tracked venues with a nonzero count, followed by the
\* parenthetical of the nonzero sub-counts only, in tracked-venue order and
\* joined by ", ".
C11_TrackedVenues ==
    /\ rpc \in {"peer_loop", "h_loop", "stats", "pre_loop", "done"} =>
          \A k \in 1..Len(JournalsToCount) :
              LET c == journal_counts[Lower(JournalsToCount[k])]
              IN  c.first_author <= c.count /\ c.last_author <= c.count
    /\ rpc \in {"h_loop", "stats", "pre_loop", "done"} =>
          \A k \in 1..Len(JournalsToCount) :
              LET venue == JournalsToCount[k]
                  c == journal_counts[Lower(venue)]
              IN  /\ c.count = Cardinality(VenueRecords(venue))
                  /\ c.first_author = Cardinality(VenueFirst(venue))
                  /\ c.last_author = Cardinality(VenueLast(venue))
    /\ rpc = "done" =>
          report_file.statistics.these_include =
              (IF Len(VenuePhrases) = 0 THEN <<>>
               ELSE S_TheseInclude \o Join(VenuePhrases, <<",", " ">>) \o <<".", "\n">>)

\* C11 witness: a report over t1 (scholar first, in "Prl"), t4 (scholar sole
\* author, in "prl") and t7 (scholar in the middle, in "PRX"): the text reads
\* "These include 2 Prl (2 first author, 1 last author), 1 PRX."
C11_Witness ==
    /\ rpc = "done"
    /\ {df_papers[k].title : k \in 1..Len(df_papers)} = {"t1", "t4", "t7"}
    /\ report_file.statistics.these_include =
          S_TheseInclude
          \o <<"2", " ", "P", "r", "l", " ", "(", "2">> \o S_FirstAuthor
          \o <<",", " ", "1">> \o S_LastAuthor
          \o <<")", ",", " ", "1", " ", "P", "R", "X", ".", "\n">>


(***************************************************************************)
(* Claims about format_names (SpecNames).                                  *)
(***************************************************************************)
CommaSpace == <<",", " ">>

\* a name's first space-delimited token, and what follows its first space
FirstToken(n) ==
    LET k == Find(n, <<" ">>) IN IF k = 0 THEN n ELSE SubSeq(n, 1, k - 1)
RestTokens(n) ==
    LET k == Find(n, <<" ">>) IN IF k = 0 THEN <<>> ELSE Drop(n, k + 1)

\* every character uppercased and followed by a period
RECURSIVE PeriodAfterEach(_)
PeriodAfterEach(s) ==
    IF Len(s) = 0 THEN <<>>
    ELSE <<UpperChar(s[1]), ".">> \o PeriodAfterEach(Tail(s))

InitialsSource(tok) == IF Len(tok) >= 3 THEN <<tok[1]>> ELSE tok

NamesAgree(initialsOf(_)) ==
    LET inNames  == Split(names_in, CommaSpace)
        outNames == Split(names_out, CommaSpace)
    IN  /\ Len(outNames) = Len(inNames)
        /\ \A k \in 1..Len(inNames) :
              outNames[k] = initialsOf(FirstToken(inNames[k])) \o <<" ">>
                            \o RestTokens(inNames[k])

ClaimedInitials(tok) == PeriodAfterEach(InitialsSource(tok))
AmendedInitials(tok) == IF Len(tok) = 0 THEN <<".">> ELSE ClaimedInitials(tok)

\* C10 as stated: format_names keeps the number and order of the ", "-separated
\* names and replaces each name's first token by its initials (the first letter
\* of a token of 3 or more characters, else the whole token), uppercased, a
\* period after every character, one space, then the remaining tokens.
C10_AsStated == fpc = "done" => NamesAgree(ClaimedInitials)

\* C10 amended: as stated for a non-empty first token; an empty first token
\* (an empty name, or a name that starts with a space) becomes a single period.
C10_FormatNames == fpc = "done" => NamesAgree(AmendedInitials)

\* C10 witness: "aba, b" was formatted to "A. , B. ": two names, in order, one
\* of them with a first token of three characters.
C10_Witness ==
    /\ fpc = "done"
    /\ names_in = <<"a", "b", "a", ",", " ", "b">>
    /\ names_out = <<"A", ".", " ", ",", " ", "B", ".", " ">>

====
